---------------------------- MODULE Spec2Model ----------------------------
(***************************************************************************)
(* Model of src/variance.py, the Streamlit inventory dashboard.            *)
(*                                                                         *)
(* One run of the script: load the two worksheets (load_gsheet), build     *)
(* the sidebar category filter, read the search box, then render either    *)
(* the search results (cost revealed) or the two tabs (cost hidden).       *)
(*                                                                         *)
(* Text is a sequence of code points, so that str.strip, str.lower, the    *)
(* substring test and list.sort are computed and not assumed.  A cell is   *)
(* a record: NA is the missing value (NaN / pd.NA), Txt(s) a text value.   *)
(* A DataFrame is [columns |-> sequence of names, rows |-> sequence of     *)
(* sequences of cells]; the row index is not modelled.  Column labels may   *)
(* repeat: stripping can make two headers equal, and df[label] is then a   *)
(* DataFrame of every column with that label, not a Series.                *)
(* pandas 2.x semantics (streamlit requires pandas < 3): str(NaN) and      *)
(* Series.astype(str) turn a missing value into the text "nan".            *)
(***************************************************************************)
EXTENDS Integers, Sequences, FiniteSets

\* ------------------------------------------------------------------ bounds
\* At most MaxRows rows and MaxCols columns in a source worksheet.
MaxRows == 2
MaxCols == 3

\* -------------------------------------------------------------------- text
\* "cost"
COST_COLUMN == <<99, 111, 115, 116>>
\* "internal_cost"
COST_COLUMN_FOUND == <<105, 110, 116, 101, 114, 110, 97, 108, 95, 99, 111, 115, 116>>
\* "Category"
CATEGORY_COLUMN == <<67, 97, 116, 101, 103, 111, 114, 121>>
\* "Uncategorized"
UNCATEGORIZED == <<85, 110, 99, 97, 116, 101, 103, 111, 114, 105, 122, 101, 100>>
\* "All Categories"
ALL_CATEGORIES == <<65, 108, 108, 32, 67, 97, 116, 101, 103, 111, 114, 105, 101, 115>>
\* "itembarcode"
ITEMBARCODE == <<105, 116, 101, 109, 98, 97, 114, 99, 111, 100, 101>>
\* "description"
DESCRIPTION == <<100, 101, 115, 99, 114, 105, 112, 116, 105, 111, 110>>
\* "nan", the text str() and astype(str) give for NaN
NAN_TEXT == <<110, 97, 110>>

\* The code points str.isspace holds for (Unicode 14, CPython 3.11).
WhitespacePoints ==
    { 9, 10, 11, 12, 13, 28, 29, 30, 31, 32, 133, 160,
      5760, 8192, 8193, 8194, 8195, 8196, 8197, 8198, 8199, 8200, 8201, 8202,
      8232, 8233, 8239, 8287, 12288 }

\* str.isspace of one character
IsSpace(c) == c \in WhitespacePoints

RECURSIVE LStrip(_)
LStrip(s) == IF s # <<>> /\ IsSpace(Head(s)) THEN LStrip(Tail(s)) ELSE s

RECURSIVE RStrip(_)
RStrip(s) ==
    IF s # <<>> /\ IsSpace(s[Len(s)]) THEN RStrip(SubSeq(s, 1, Len(s) - 1)) ELSE s

\* str.strip()
Strip(s) == RStrip(LStrip(s))

\* The characters str.lower changes into one other character, as runs
\* <<first, last, step, offset>>: every step-th code point from first to
\* last is mapped to itself plus offset (Unicode 14, CPython 3.11).
LowerRuns ==
    { <<65, 90, 1, 32>>, <<192, 214, 1, 32>>, <<216, 222, 1, 32>>,
      <<256, 302, 2, 1>>, <<306, 310, 2, 1>>, <<313, 327, 2, 1>>,
      <<330, 374, 2, 1>>, <<376, 376, 1, -121>>, <<377, 381, 2, 1>>,
      <<385, 385, 1, 210>>, <<386, 388, 2, 1>>, <<390, 390, 1, 206>>,
      <<391, 391, 1, 1>>, <<393, 394, 1, 205>>, <<395, 395, 1, 1>>,
      <<398, 398, 1, 79>>, <<399, 399, 1, 202>>, <<400, 400, 1, 203>>,
      <<401, 401, 1, 1>>, <<403, 403, 1, 205>>, <<404, 404, 1, 207>>,
      <<406, 406, 1, 211>>, <<407, 407, 1, 209>>, <<408, 408, 1, 1>>,
      <<412, 412, 1, 211>>, <<413, 413, 1, 213>>, <<415, 415, 1, 214>>,
      <<416, 420, 2, 1>>, <<422, 422, 1, 218>>, <<423, 423, 1, 1>>,
      <<425, 425, 1, 218>>, <<428, 428, 1, 1>>, <<430, 430, 1, 218>>,
      <<431, 431, 1, 1>>, <<433, 434, 1, 217>>, <<435, 437, 2, 1>>,
      <<439, 439, 1, 219>>, <<440, 440, 1, 1>>, <<444, 444, 1, 1>>,
      <<452, 452, 1, 2>>, <<453, 453, 1, 1>>, <<455, 455, 1, 2>>,
      <<456, 456, 1, 1>>, <<458, 458, 1, 2>>, <<459, 475, 2, 1>>,
      <<478, 494, 2, 1>>, <<497, 497, 1, 2>>, <<498, 500, 2, 1>>,
      <<502, 502, 1, -97>>, <<503, 503, 1, -56>>, <<504, 542, 2, 1>>,
      <<544, 544, 1, -130>>, <<546, 562, 2, 1>>, <<570, 570, 1, 10795>>,
      <<571, 571, 1, 1>>, <<573, 573, 1, -163>>, <<574, 574, 1, 10792>>,
      <<577, 577, 1, 1>>, <<579, 579, 1, -195>>, <<580, 580, 1, 69>>,
      <<581, 581, 1, 71>>, <<582, 590, 2, 1>>, <<880, 882, 2, 1>>,
      <<886, 886, 1, 1>>, <<895, 895, 1, 116>>, <<902, 902, 1, 38>>,
      <<904, 906, 1, 37>>, <<908, 908, 1, 64>>, <<910, 911, 1, 63>>,
      <<913, 929, 1, 32>>, <<931, 939, 1, 32>>, <<975, 975, 1, 8>>,
      <<984, 1006, 2, 1>>, <<1012, 1012, 1, -60>>, <<1015, 1015, 1, 1>>,
      <<1017, 1017, 1, -7>>, <<1018, 1018, 1, 1>>, <<1021, 1023, 1, -130>>,
      <<1024, 1039, 1, 80>>, <<1040, 1071, 1, 32>>, <<1120, 1152, 2, 1>>,
      <<1162, 1214, 2, 1>>, <<1216, 1216, 1, 15>>, <<1217, 1229, 2, 1>>,
      <<1232, 1326, 2, 1>>, <<1329, 1366, 1, 48>>, <<4256, 4293, 1, 7264>>,
      <<4295, 4295, 1, 7264>>, <<4301, 4301, 1, 7264>>, <<5024, 5103, 1, 38864>>,
      <<5104, 5109, 1, 8>>, <<7312, 7354, 1, -3008>>, <<7357, 7359, 1, -3008>>,
      <<7680, 7828, 2, 1>>, <<7838, 7838, 1, -7615>>, <<7840, 7934, 2, 1>>,
      <<7944, 7951, 1, -8>>, <<7960, 7965, 1, -8>>, <<7976, 7983, 1, -8>>,
      <<7992, 7999, 1, -8>>, <<8008, 8013, 1, -8>>, <<8025, 8031, 2, -8>>,
      <<8040, 8047, 1, -8>>, <<8072, 8079, 1, -8>>, <<8088, 8095, 1, -8>>,
      <<8104, 8111, 1, -8>>, <<8120, 8121, 1, -8>>, <<8122, 8123, 1, -74>>,
      <<8124, 8124, 1, -9>>, <<8136, 8139, 1, -86>>, <<8140, 8140, 1, -9>>,
      <<8152, 8153, 1, -8>>, <<8154, 8155, 1, -100>>, <<8168, 8169, 1, -8>>,
      <<8170, 8171, 1, -112>>, <<8172, 8172, 1, -7>>, <<8184, 8185, 1, -128>>,
      <<8186, 8187, 1, -126>>, <<8188, 8188, 1, -9>>, <<8486, 8486, 1, -7517>>,
      <<8490, 8490, 1, -8383>>, <<8491, 8491, 1, -8262>>, <<8498, 8498, 1, 28>>,
      <<8544, 8559, 1, 16>>, <<8579, 8579, 1, 1>>, <<9398, 9423, 1, 26>>,
      <<11264, 11311, 1, 48>>, <<11360, 11360, 1, 1>>, <<11362, 11362, 1, -10743>>,
      <<11363, 11363, 1, -3814>>, <<11364, 11364, 1, -10727>>, <<11367, 11371, 2, 1>>,
      <<11373, 11373, 1, -10780>>, <<11374, 11374, 1, -10749>>, <<11375, 11375, 1, -10783>>,
      <<11376, 11376, 1, -10782>>, <<11378, 11378, 1, 1>>, <<11381, 11381, 1, 1>>,
      <<11390, 11391, 1, -10815>>, <<11392, 11490, 2, 1>>, <<11499, 11501, 2, 1>>,
      <<11506, 11506, 1, 1>>, <<42560, 42604, 2, 1>>, <<42624, 42650, 2, 1>>,
      <<42786, 42798, 2, 1>>, <<42802, 42862, 2, 1>>, <<42873, 42875, 2, 1>>,
      <<42877, 42877, 1, -35332>>, <<42878, 42886, 2, 1>>, <<42891, 42891, 1, 1>>,
      <<42893, 42893, 1, -42280>>, <<42896, 42898, 2, 1>>, <<42902, 42920, 2, 1>>,
      <<42922, 42922, 1, -42308>>, <<42923, 42923, 1, -42319>>, <<42924, 42924, 1, -42315>>,
      <<42925, 42925, 1, -42305>>, <<42926, 42926, 1, -42308>>, <<42928, 42928, 1, -42258>>,
      <<42929, 42929, 1, -42282>>, <<42930, 42930, 1, -42261>>, <<42931, 42931, 1, 928>>,
      <<42932, 42946, 2, 1>>, <<42948, 42948, 1, -48>>, <<42949, 42949, 1, -42307>>,
      <<42950, 42950, 1, -35384>>, <<42951, 42953, 2, 1>>, <<42960, 42960, 1, 1>>,
      <<42966, 42968, 2, 1>>, <<42997, 42997, 1, 1>>, <<65313, 65338, 1, 32>>,
      <<66560, 66599, 1, 40>>, <<66736, 66771, 1, 40>>, <<66928, 66938, 1, 39>>,
      <<66940, 66954, 1, 39>>, <<66956, 66962, 1, 39>>, <<66964, 66965, 1, 39>>,
      <<68736, 68786, 1, 64>>, <<71840, 71871, 1, 32>>, <<93760, 93791, 1, 32>>,
      <<125184, 125217, 1, 34>> }

\* The characters str.upper changes into one other character, as runs.
UpperRuns ==
    { <<97, 122, 1, -32>>, <<181, 181, 1, 743>>, <<224, 246, 1, -32>>,
      <<248, 254, 1, -32>>, <<255, 255, 1, 121>>, <<257, 303, 2, -1>>,
      <<305, 305, 1, -232>>, <<307, 311, 2, -1>>, <<314, 328, 2, -1>>,
      <<331, 375, 2, -1>>, <<378, 382, 2, -1>>, <<383, 383, 1, -300>>,
      <<384, 384, 1, 195>>, <<387, 389, 2, -1>>, <<392, 392, 1, -1>>,
      <<396, 396, 1, -1>>, <<402, 402, 1, -1>>, <<405, 405, 1, 97>>,
      <<409, 409, 1, -1>>, <<410, 410, 1, 163>>, <<414, 414, 1, 130>>,
      <<417, 421, 2, -1>>, <<424, 424, 1, -1>>, <<429, 429, 1, -1>>,
      <<432, 432, 1, -1>>, <<436, 438, 2, -1>>, <<441, 441, 1, -1>>,
      <<445, 445, 1, -1>>, <<447, 447, 1, 56>>, <<453, 453, 1, -1>>,
      <<454, 454, 1, -2>>, <<456, 456, 1, -1>>, <<457, 457, 1, -2>>,
      <<459, 459, 1, -1>>, <<460, 460, 1, -2>>, <<462, 476, 2, -1>>,
      <<477, 477, 1, -79>>, <<479, 495, 2, -1>>, <<498, 498, 1, -1>>,
      <<499, 499, 1, -2>>, <<501, 501, 1, -1>>, <<505, 543, 2, -1>>,
      <<547, 563, 2, -1>>, <<572, 572, 1, -1>>, <<575, 576, 1, 10815>>,
      <<578, 578, 1, -1>>, <<583, 591, 2, -1>>, <<592, 592, 1, 10783>>,
      <<593, 593, 1, 10780>>, <<594, 594, 1, 10782>>, <<595, 595, 1, -210>>,
      <<596, 596, 1, -206>>, <<598, 599, 1, -205>>, <<601, 601, 1, -202>>,
      <<603, 603, 1, -203>>, <<604, 604, 1, 42319>>, <<608, 608, 1, -205>>,
      <<609, 609, 1, 42315>>, <<611, 611, 1, -207>>, <<613, 613, 1, 42280>>,
      <<614, 614, 1, 42308>>, <<616, 616, 1, -209>>, <<617, 617, 1, -211>>,
      <<618, 618, 1, 42308>>, <<619, 619, 1, 10743>>, <<620, 620, 1, 42305>>,
      <<623, 623, 1, -211>>, <<625, 625, 1, 10749>>, <<626, 626, 1, -213>>,
      <<629, 629, 1, -214>>, <<637, 637, 1, 10727>>, <<640, 640, 1, -218>>,
      <<642, 642, 1, 42307>>, <<643, 643, 1, -218>>, <<647, 647, 1, 42282>>,
      <<648, 648, 1, -218>>, <<649, 649, 1, -69>>, <<650, 651, 1, -217>>,
      <<652, 652, 1, -71>>, <<658, 658, 1, -219>>, <<669, 669, 1, 42261>>,
      <<670, 670, 1, 42258>>, <<837, 837, 1, 84>>, <<881, 883, 2, -1>>,
      <<887, 887, 1, -1>>, <<891, 893, 1, 130>>, <<940, 940, 1, -38>>,
      <<941, 943, 1, -37>>, <<945, 961, 1, -32>>, <<962, 962, 1, -31>>,
      <<963, 971, 1, -32>>, <<972, 972, 1, -64>>, <<973, 974, 1, -63>>,
      <<976, 976, 1, -62>>, <<977, 977, 1, -57>>, <<981, 981, 1, -47>>,
      <<982, 982, 1, -54>>, <<983, 983, 1, -8>>, <<985, 1007, 2, -1>>,
      <<1008, 1008, 1, -86>>, <<1009, 1009, 1, -80>>, <<1010, 1010, 1, 7>>,
      <<1011, 1011, 1, -116>>, <<1013, 1013, 1, -96>>, <<1016, 1016, 1, -1>>,
      <<1019, 1019, 1, -1>>, <<1072, 1103, 1, -32>>, <<1104, 1119, 1, -80>>,
      <<1121, 1153, 2, -1>>, <<1163, 1215, 2, -1>>, <<1218, 1230, 2, -1>>,
      <<1231, 1231, 1, -15>>, <<1233, 1327, 2, -1>>, <<1377, 1414, 1, -48>>,
      <<4304, 4346, 1, 3008>>, <<4349, 4351, 1, 3008>>, <<5112, 5117, 1, -8>>,
      <<7296, 7296, 1, -6254>>, <<7297, 7297, 1, -6253>>, <<7298, 7298, 1, -6244>>,
      <<7299, 7300, 1, -6242>>, <<7301, 7301, 1, -6243>>, <<7302, 7302, 1, -6236>>,
      <<7303, 7303, 1, -6181>>, <<7304, 7304, 1, 35266>>, <<7545, 7545, 1, 35332>>,
      <<7549, 7549, 1, 3814>>, <<7566, 7566, 1, 35384>>, <<7681, 7829, 2, -1>>,
      <<7835, 7835, 1, -59>>, <<7841, 7935, 2, -1>>, <<7936, 7943, 1, 8>>,
      <<7952, 7957, 1, 8>>, <<7968, 7975, 1, 8>>, <<7984, 7991, 1, 8>>,
      <<8000, 8005, 1, 8>>, <<8017, 8023, 2, 8>>, <<8032, 8039, 1, 8>>,
      <<8048, 8049, 1, 74>>, <<8050, 8053, 1, 86>>, <<8054, 8055, 1, 100>>,
      <<8056, 8057, 1, 128>>, <<8058, 8059, 1, 112>>, <<8060, 8061, 1, 126>>,
      <<8112, 8113, 1, 8>>, <<8126, 8126, 1, -7205>>, <<8144, 8145, 1, 8>>,
      <<8160, 8161, 1, 8>>, <<8165, 8165, 1, 7>>, <<8526, 8526, 1, -28>>,
      <<8560, 8575, 1, -16>>, <<8580, 8580, 1, -1>>, <<9424, 9449, 1, -26>>,
      <<11312, 11359, 1, -48>>, <<11361, 11361, 1, -1>>, <<11365, 11365, 1, -10795>>,
      <<11366, 11366, 1, -10792>>, <<11368, 11372, 2, -1>>, <<11379, 11379, 1, -1>>,
      <<11382, 11382, 1, -1>>, <<11393, 11491, 2, -1>>, <<11500, 11502, 2, -1>>,
      <<11507, 11507, 1, -1>>, <<11520, 11557, 1, -7264>>, <<11559, 11559, 1, -7264>>,
      <<11565, 11565, 1, -7264>>, <<42561, 42605, 2, -1>>, <<42625, 42651, 2, -1>>,
      <<42787, 42799, 2, -1>>, <<42803, 42863, 2, -1>>, <<42874, 42876, 2, -1>>,
      <<42879, 42887, 2, -1>>, <<42892, 42892, 1, -1>>, <<42897, 42899, 2, -1>>,
      <<42900, 42900, 1, 48>>, <<42903, 42921, 2, -1>>, <<42933, 42947, 2, -1>>,
      <<42952, 42954, 2, -1>>, <<42961, 42961, 1, -1>>, <<42967, 42969, 2, -1>>,
      <<42998, 42998, 1, -1>>, <<43859, 43859, 1, -928>>, <<43888, 43967, 1, -38864>>,
      <<65345, 65370, 1, -32>>, <<66600, 66639, 1, -40>>, <<66776, 66811, 1, -40>>,
      <<66967, 66977, 1, -39>>, <<66979, 66993, 1, -39>>, <<66995, 67001, 1, -39>>,
      <<67003, 67004, 1, -39>>, <<68800, 68850, 1, -64>>, <<71872, 71903, 1, -32>>,
      <<93792, 93823, 1, -32>>, <<125218, 125251, 1, -34>> }

\* The characters str.upper changes into several: <<character, result>>.
UpperSpecial ==
    { <<223, <<83, 83>>>>, <<329, <<700, 78>>>>, <<496, <<74, 780>>>>,
      <<912, <<921, 776, 769>>>>, <<944, <<933, 776, 769>>>>, <<1415, <<1333, 1362>>>>,
      <<7830, <<72, 817>>>>, <<7831, <<84, 776>>>>, <<7832, <<87, 778>>>>,
      <<7833, <<89, 778>>>>, <<7834, <<65, 702>>>>, <<8016, <<933, 787>>>>,
      <<8018, <<933, 787, 768>>>>, <<8020, <<933, 787, 769>>>>, <<8022, <<933, 787, 834>>>>,
      <<8064, <<7944, 921>>>>, <<8065, <<7945, 921>>>>, <<8066, <<7946, 921>>>>,
      <<8067, <<7947, 921>>>>, <<8068, <<7948, 921>>>>, <<8069, <<7949, 921>>>>,
      <<8070, <<7950, 921>>>>, <<8071, <<7951, 921>>>>, <<8072, <<7944, 921>>>>,
      <<8073, <<7945, 921>>>>, <<8074, <<7946, 921>>>>, <<8075, <<7947, 921>>>>,
      <<8076, <<7948, 921>>>>, <<8077, <<7949, 921>>>>, <<8078, <<7950, 921>>>>,
      <<8079, <<7951, 921>>>>, <<8080, <<7976, 921>>>>, <<8081, <<7977, 921>>>>,
      <<8082, <<7978, 921>>>>, <<8083, <<7979, 921>>>>, <<8084, <<7980, 921>>>>,
      <<8085, <<7981, 921>>>>, <<8086, <<7982, 921>>>>, <<8087, <<7983, 921>>>>,
      <<8088, <<7976, 921>>>>, <<8089, <<7977, 921>>>>, <<8090, <<7978, 921>>>>,
      <<8091, <<7979, 921>>>>, <<8092, <<7980, 921>>>>, <<8093, <<7981, 921>>>>,
      <<8094, <<7982, 921>>>>, <<8095, <<7983, 921>>>>, <<8096, <<8040, 921>>>>,
      <<8097, <<8041, 921>>>>, <<8098, <<8042, 921>>>>, <<8099, <<8043, 921>>>>,
      <<8100, <<8044, 921>>>>, <<8101, <<8045, 921>>>>, <<8102, <<8046, 921>>>>,
      <<8103, <<8047, 921>>>>, <<8104, <<8040, 921>>>>, <<8105, <<8041, 921>>>>,
      <<8106, <<8042, 921>>>>, <<8107, <<8043, 921>>>>, <<8108, <<8044, 921>>>>,
      <<8109, <<8045, 921>>>>, <<8110, <<8046, 921>>>>, <<8111, <<8047, 921>>>>,
      <<8114, <<8122, 921>>>>, <<8115, <<913, 921>>>>, <<8116, <<902, 921>>>>,
      <<8118, <<913, 834>>>>, <<8119, <<913, 834, 921>>>>, <<8124, <<913, 921>>>>,
      <<8130, <<8138, 921>>>>, <<8131, <<919, 921>>>>, <<8132, <<905, 921>>>>,
      <<8134, <<919, 834>>>>, <<8135, <<919, 834, 921>>>>, <<8140, <<919, 921>>>>,
      <<8146, <<921, 776, 768>>>>, <<8147, <<921, 776, 769>>>>, <<8150, <<921, 834>>>>,
      <<8151, <<921, 776, 834>>>>, <<8162, <<933, 776, 768>>>>, <<8163, <<933, 776, 769>>>>,
      <<8164, <<929, 787>>>>, <<8166, <<933, 834>>>>, <<8167, <<933, 776, 834>>>>,
      <<8178, <<8186, 921>>>>, <<8179, <<937, 921>>>>, <<8180, <<911, 921>>>>,
      <<8182, <<937, 834>>>>, <<8183, <<937, 834, 921>>>>, <<8188, <<937, 921>>>>,
      <<64256, <<70, 70>>>>, <<64257, <<70, 73>>>>, <<64258, <<70, 76>>>>,
      <<64259, <<70, 70, 73>>>>, <<64260, <<70, 70, 76>>>>, <<64261, <<83, 84>>>>,
      <<64262, <<83, 84>>>>, <<64275, <<1348, 1350>>>>, <<64276, <<1348, 1333>>>>,
      <<64277, <<1348, 1339>>>>, <<64278, <<1358, 1350>>>>, <<64279, <<1348, 1341>>>> }

\* The cased characters (Lowercase, Uppercase or titlecase), as ranges.
CasedRanges ==
    { <<65, 90>>, <<97, 122>>, <<170, 170>>, <<181, 181>>, <<186, 186>>,
      <<192, 214>>, <<216, 246>>, <<248, 442>>, <<444, 447>>, <<452, 659>>,
      <<661, 696>>, <<704, 705>>, <<736, 740>>, <<837, 837>>, <<880, 883>>,
      <<886, 887>>, <<890, 893>>, <<895, 895>>, <<902, 902>>, <<904, 906>>,
      <<908, 908>>, <<910, 929>>, <<931, 1013>>, <<1015, 1153>>, <<1162, 1327>>,
      <<1329, 1366>>, <<1376, 1416>>, <<4256, 4293>>, <<4295, 4295>>, <<4301, 4301>>,
      <<4304, 4346>>, <<4349, 4351>>, <<5024, 5109>>, <<5112, 5117>>, <<7296, 7304>>,
      <<7312, 7354>>, <<7357, 7359>>, <<7424, 7615>>, <<7680, 7957>>, <<7960, 7965>>,
      <<7968, 8005>>, <<8008, 8013>>, <<8016, 8023>>, <<8025, 8025>>, <<8027, 8027>>,
      <<8029, 8029>>, <<8031, 8061>>, <<8064, 8116>>, <<8118, 8124>>, <<8126, 8126>>,
      <<8130, 8132>>, <<8134, 8140>>, <<8144, 8147>>, <<8150, 8155>>, <<8160, 8172>>,
      <<8178, 8180>>, <<8182, 8188>>, <<8305, 8305>>, <<8319, 8319>>, <<8336, 8348>>,
      <<8450, 8450>>, <<8455, 8455>>, <<8458, 8467>>, <<8469, 8469>>, <<8473, 8477>>,
      <<8484, 8484>>, <<8486, 8486>>, <<8488, 8488>>, <<8490, 8493>>, <<8495, 8500>>,
      <<8505, 8505>>, <<8508, 8511>>, <<8517, 8521>>, <<8526, 8526>>, <<8544, 8575>>,
      <<8579, 8580>>, <<9398, 9449>>, <<11264, 11492>>, <<11499, 11502>>, <<11506, 11507>>,
      <<11520, 11557>>, <<11559, 11559>>, <<11565, 11565>>, <<42560, 42605>>, <<42624, 42653>>,
      <<42786, 42887>>, <<42891, 42894>>, <<42896, 42954>>, <<42960, 42961>>, <<42963, 42963>>,
      <<42965, 42969>>, <<42997, 42998>>, <<43000, 43002>>, <<43824, 43866>>, <<43868, 43880>>,
      <<43888, 43967>>, <<64256, 64262>>, <<64275, 64279>>, <<65313, 65338>>, <<65345, 65370>>,
      <<66560, 66639>>, <<66736, 66771>>, <<66776, 66811>>, <<66928, 66938>>, <<66940, 66954>>,
      <<66956, 66962>>, <<66964, 66965>>, <<66967, 66977>>, <<66979, 66993>>, <<66995, 67001>>,
      <<67003, 67004>>, <<67456, 67456>>, <<67459, 67461>>, <<67463, 67504>>, <<67506, 67514>>,
      <<68736, 68786>>, <<68800, 68850>>, <<71840, 71903>>, <<93760, 93823>>, <<119808, 119892>>,
      <<119894, 119964>>, <<119966, 119967>>, <<119970, 119970>>, <<119973, 119974>>, <<119977, 119980>>,
      <<119982, 119993>>, <<119995, 119995>>, <<119997, 120003>>, <<120005, 120069>>, <<120071, 120074>>,
      <<120077, 120084>>, <<120086, 120092>>, <<120094, 120121>>, <<120123, 120126>>, <<120128, 120132>>,
      <<120134, 120134>>, <<120138, 120144>>, <<120146, 120485>>, <<120488, 120512>>, <<120514, 120538>>,
      <<120540, 120570>>, <<120572, 120596>>, <<120598, 120628>>, <<120630, 120654>>, <<120656, 120686>>,
      <<120688, 120712>>, <<120714, 120744>>, <<120746, 120770>>, <<120772, 120779>>, <<122624, 122633>>,
      <<122635, 122654>>, <<125184, 125251>>, <<127280, 127305>>, <<127312, 127337>>, <<127344, 127369>> }

\* The case-ignorable characters, as ranges.
CaseIgnorableRanges ==
    { <<39, 39>>, <<46, 46>>, <<58, 58>>, <<94, 94>>, <<96, 96>>,
      <<168, 168>>, <<173, 173>>, <<175, 175>>, <<180, 180>>, <<183, 184>>,
      <<688, 879>>, <<884, 885>>, <<890, 890>>, <<900, 901>>, <<903, 903>>,
      <<1155, 1161>>, <<1369, 1369>>, <<1375, 1375>>, <<1425, 1469>>, <<1471, 1471>>,
      <<1473, 1474>>, <<1476, 1477>>, <<1479, 1479>>, <<1524, 1524>>, <<1536, 1541>>,
      <<1552, 1562>>, <<1564, 1564>>, <<1600, 1600>>, <<1611, 1631>>, <<1648, 1648>>,
      <<1750, 1757>>, <<1759, 1768>>, <<1770, 1773>>, <<1807, 1807>>, <<1809, 1809>>,
      <<1840, 1866>>, <<1958, 1968>>, <<2027, 2037>>, <<2042, 2042>>, <<2045, 2045>>,
      <<2070, 2093>>, <<2137, 2139>>, <<2184, 2184>>, <<2192, 2193>>, <<2200, 2207>>,
      <<2249, 2306>>, <<2362, 2362>>, <<2364, 2364>>, <<2369, 2376>>, <<2381, 2381>>,
      <<2385, 2391>>, <<2402, 2403>>, <<2417, 2417>>, <<2433, 2433>>, <<2492, 2492>>,
      <<2497, 2500>>, <<2509, 2509>>, <<2530, 2531>>, <<2558, 2558>>, <<2561, 2562>>,
      <<2620, 2620>>, <<2625, 2626>>, <<2631, 2632>>, <<2635, 2637>>, <<2641, 2641>>,
      <<2672, 2673>>, <<2677, 2677>>, <<2689, 2690>>, <<2748, 2748>>, <<2753, 2757>>,
      <<2759, 2760>>, <<2765, 2765>>, <<2786, 2787>>, <<2810, 2815>>, <<2817, 2817>>,
      <<2876, 2876>>, <<2879, 2879>>, <<2881, 2884>>, <<2893, 2893>>, <<2901, 2902>>,
      <<2914, 2915>>, <<2946, 2946>>, <<3008, 3008>>, <<3021, 3021>>, <<3072, 3072>>,
      <<3076, 3076>>, <<3132, 3132>>, <<3134, 3136>>, <<3142, 3144>>, <<3146, 3149>>,
      <<3157, 3158>>, <<3170, 3171>>, <<3201, 3201>>, <<3260, 3260>>, <<3263, 3263>>,
      <<3270, 3270>>, <<3276, 3277>>, <<3298, 3299>>, <<3328, 3329>>, <<3387, 3388>>,
      <<3393, 3396>>, <<3405, 3405>>, <<3426, 3427>>, <<3457, 3457>>, <<3530, 3530>>,
      <<3538, 3540>>, <<3542, 3542>>, <<3633, 3633>>, <<3636, 3642>>, <<3654, 3662>>,
      <<3761, 3761>>, <<3764, 3772>>, <<3782, 3782>>, <<3784, 3789>>, <<3864, 3865>>,
      <<3893, 3893>>, <<3895, 3895>>, <<3897, 3897>>, <<3953, 3966>>, <<3968, 3972>>,
      <<3974, 3975>>, <<3981, 3991>>, <<3993, 4028>>, <<4038, 4038>>, <<4141, 4144>>,
      <<4146, 4151>>, <<4153, 4154>>, <<4157, 4158>>, <<4184, 4185>>, <<4190, 4192>>,
      <<4209, 4212>>, <<4226, 4226>>, <<4229, 4230>>, <<4237, 4237>>, <<4253, 4253>>,
      <<4348, 4348>>, <<4957, 4959>>, <<5906, 5908>>, <<5938, 5939>>, <<5970, 5971>>,
      <<6002, 6003>>, <<6068, 6069>>, <<6071, 6077>>, <<6086, 6086>>, <<6089, 6099>>,
      <<6103, 6103>>, <<6109, 6109>>, <<6155, 6159>>, <<6211, 6211>>, <<6277, 6278>>,
      <<6313, 6313>>, <<6432, 6434>>, <<6439, 6440>>, <<6450, 6450>>, <<6457, 6459>>,
      <<6679, 6680>>, <<6683, 6683>>, <<6742, 6742>>, <<6744, 6750>>, <<6752, 6752>>,
      <<6754, 6754>>, <<6757, 6764>>, <<6771, 6780>>, <<6783, 6783>>, <<6823, 6823>>,
      <<6832, 6862>>, <<6912, 6915>>, <<6964, 6964>>, <<6966, 6970>>, <<6972, 6972>>,
      <<6978, 6978>>, <<7019, 7027>>, <<7040, 7041>>, <<7074, 7077>>, <<7080, 7081>>,
      <<7083, 7085>>, <<7142, 7142>>, <<7144, 7145>>, <<7149, 7149>>, <<7151, 7153>>,
      <<7212, 7219>>, <<7222, 7223>>, <<7288, 7293>>, <<7376, 7378>>, <<7380, 7392>>,
      <<7394, 7400>>, <<7405, 7405>>, <<7412, 7412>>, <<7416, 7417>>, <<7468, 7530>>,
      <<7544, 7544>>, <<7579, 7679>>, <<8125, 8125>>, <<8127, 8129>>, <<8141, 8143>>,
      <<8157, 8159>>, <<8173, 8175>>, <<8189, 8190>>, <<8203, 8207>>, <<8216, 8217>>,
      <<8228, 8228>>, <<8231, 8231>>, <<8234, 8238>>, <<8288, 8292>>, <<8294, 8303>>,
      <<8305, 8305>>, <<8319, 8319>>, <<8336, 8348>>, <<8400, 8432>>, <<11388, 11389>>,
      <<11503, 11505>>, <<11631, 11631>>, <<11647, 11647>>, <<11744, 11775>>, <<11823, 11823>>,
      <<12293, 12293>>, <<12330, 12333>>, <<12337, 12341>>, <<12347, 12347>>, <<12441, 12446>>,
      <<12540, 12542>>, <<40981, 40981>>, <<42232, 42237>>, <<42508, 42508>>, <<42607, 42610>>,
      <<42612, 42621>>, <<42623, 42623>>, <<42652, 42655>>, <<42736, 42737>>, <<42752, 42785>>,
      <<42864, 42864>>, <<42888, 42890>>, <<42994, 42996>>, <<43000, 43001>>, <<43010, 43010>>,
      <<43014, 43014>>, <<43019, 43019>>, <<43045, 43046>>, <<43052, 43052>>, <<43204, 43205>>,
      <<43232, 43249>>, <<43263, 43263>>, <<43302, 43309>>, <<43335, 43345>>, <<43392, 43394>>,
      <<43443, 43443>>, <<43446, 43449>>, <<43452, 43453>>, <<43471, 43471>>, <<43493, 43494>>,
      <<43561, 43566>>, <<43569, 43570>>, <<43573, 43574>>, <<43587, 43587>>, <<43596, 43596>>,
      <<43632, 43632>>, <<43644, 43644>>, <<43696, 43696>>, <<43698, 43700>>, <<43703, 43704>>,
      <<43710, 43711>>, <<43713, 43713>>, <<43741, 43741>>, <<43756, 43757>>, <<43763, 43764>>,
      <<43766, 43766>>, <<43867, 43871>>, <<43881, 43883>>, <<44005, 44005>>, <<44008, 44008>>,
      <<44013, 44013>>, <<64286, 64286>>, <<64434, 64450>>, <<65024, 65039>>, <<65043, 65043>>,
      <<65056, 65071>>, <<65106, 65106>>, <<65109, 65109>>, <<65279, 65279>>, <<65287, 65287>>,
      <<65294, 65294>>, <<65306, 65306>>, <<65342, 65342>>, <<65344, 65344>>, <<65392, 65392>>,
      <<65438, 65439>>, <<65507, 65507>>, <<65529, 65531>>, <<66045, 66045>>, <<66272, 66272>>,
      <<66422, 66426>>, <<67456, 67461>>, <<67463, 67504>>, <<67506, 67514>>, <<68097, 68099>>,
      <<68101, 68102>>, <<68108, 68111>>, <<68152, 68154>>, <<68159, 68159>>, <<68325, 68326>>,
      <<68900, 68903>>, <<69291, 69292>>, <<69446, 69456>>, <<69506, 69509>>, <<69633, 69633>>,
      <<69688, 69702>>, <<69744, 69744>>, <<69747, 69748>>, <<69759, 69761>>, <<69811, 69814>>,
      <<69817, 69818>>, <<69821, 69821>>, <<69826, 69826>>, <<69837, 69837>>, <<69888, 69890>>,
      <<69927, 69931>>, <<69933, 69940>>, <<70003, 70003>>, <<70016, 70017>>, <<70070, 70078>>,
      <<70089, 70092>>, <<70095, 70095>>, <<70191, 70193>>, <<70196, 70196>>, <<70198, 70199>>,
      <<70206, 70206>>, <<70367, 70367>>, <<70371, 70378>>, <<70400, 70401>>, <<70459, 70460>>,
      <<70464, 70464>>, <<70502, 70508>>, <<70512, 70516>>, <<70712, 70719>>, <<70722, 70724>>,
      <<70726, 70726>>, <<70750, 70750>>, <<70835, 70840>>, <<70842, 70842>>, <<70847, 70848>>,
      <<70850, 70851>>, <<71090, 71093>>, <<71100, 71101>>, <<71103, 71104>>, <<71132, 71133>>,
      <<71219, 71226>>, <<71229, 71229>>, <<71231, 71232>>, <<71339, 71339>>, <<71341, 71341>>,
      <<71344, 71349>>, <<71351, 71351>>, <<71453, 71455>>, <<71458, 71461>>, <<71463, 71467>>,
      <<71727, 71735>>, <<71737, 71738>>, <<71995, 71996>>, <<71998, 71998>>, <<72003, 72003>>,
      <<72148, 72151>>, <<72154, 72155>>, <<72160, 72160>>, <<72193, 72202>>, <<72243, 72248>>,
      <<72251, 72254>>, <<72263, 72263>>, <<72273, 72278>>, <<72281, 72283>>, <<72330, 72342>>,
      <<72344, 72345>>, <<72752, 72758>>, <<72760, 72765>>, <<72767, 72767>>, <<72850, 72871>>,
      <<72874, 72880>>, <<72882, 72883>>, <<72885, 72886>>, <<73009, 73014>>, <<73018, 73018>>,
      <<73020, 73021>>, <<73023, 73029>>, <<73031, 73031>>, <<73104, 73105>>, <<73109, 73109>>,
      <<73111, 73111>>, <<73459, 73460>>, <<78896, 78904>>, <<92912, 92916>>, <<92976, 92982>>,
      <<92992, 92995>>, <<94031, 94031>>, <<94095, 94111>>, <<94176, 94177>>, <<94179, 94180>>,
      <<110576, 110579>>, <<110581, 110587>>, <<110589, 110590>>, <<113821, 113822>>, <<113824, 113827>>,
      <<118528, 118573>>, <<118576, 118598>>, <<119143, 119145>>, <<119155, 119170>>, <<119173, 119179>>,
      <<119210, 119213>>, <<119362, 119364>>, <<121344, 121398>>, <<121403, 121452>>, <<121461, 121461>>,
      <<121476, 121476>>, <<121499, 121503>>, <<121505, 121519>>, <<122880, 122886>>, <<122888, 122904>>,
      <<122907, 122913>>, <<122915, 122916>>, <<122918, 122922>>, <<123184, 123197>>, <<123566, 123566>>,
      <<123628, 123631>>, <<125136, 125142>>, <<125252, 125259>>, <<127995, 127999>>, <<917505, 917505>>,
      <<917536, 917631>>, <<917760, 917999>> }

InRuns(c, runs) ==
    { r \in runs : r[1] <= c /\ c <= r[2] /\ (c - r[1]) % r[3] = 0 }

InRanges(c, ranges) == \E r \in ranges : r[1] <= c /\ c <= r[2]

\* The one character a character lowers to when it lowers to one.
LowerPoint(c) ==
    IF c < 128 THEN (IF c \in 65..90 THEN c + 32 ELSE c)
    ELSE LET hit == InRuns(c, LowerRuns)
         IN  IF hit = {} THEN c ELSE c + (CHOOSE r \in hit : TRUE)[4]

\* chr(c).lower(): U+0130 lowers to "i" and a combining dot above
LowerChar(c) == IF c = 304 THEN <<105, 775>> ELSE <<LowerPoint(c)>>

IsCased(c) ==
    IF c < 128 THEN c \in 65..90 \/ c \in 97..122 ELSE InRanges(c, CasedRanges)

IsCaseIgnorable(c) ==
    IF c < 128 THEN c \in {39, 46, 58, 94, 96} ELSE InRanges(c, CaseIgnorableRanges)

\* The capital sigma at s[i] is final: a cased character comes before it
\* and none after it, case-ignorable characters skipped.
FinalSigma(s, i) ==
    LET before == { j \in 1..(i - 1) : ~IsCaseIgnorable(s[j]) }
        after  == { j \in (i + 1)..Len(s) : ~IsCaseIgnorable(s[j]) }
    IN  /\ before # {}
        /\ IsCased(s[CHOOSE j \in before : \A k \in before : k <= j])
        /\ \/ after = {}
           \/ ~IsCased(s[CHOOSE j \in after : \A k \in after : j <= k])

RECURSIVE LowerFrom(_, _)
LowerFrom(s, i) ==
    IF i > Len(s) THEN <<>>
    ELSE (IF s[i] = 931
          THEN <<IF FinalSigma(s, i) THEN 962 ELSE 963>>
          ELSE LowerChar(s[i])) \o LowerFrom(s, i + 1)

\* str.lower()
Lower(s) == LowerFrom(s, 1)

\* chr(c).upper()
UpperChar(c) ==
    IF c < 128 THEN <<IF c \in 97..122 THEN c - 32 ELSE c>>
    ELSE LET special == { r \in UpperSpecial : r[1] = c }
             hit     == InRuns(c, UpperRuns)
         IN  IF special # {} THEN (CHOOSE r \in special : TRUE)[2]
             ELSE IF hit = {} THEN <<c>>
             ELSE <<c + (CHOOSE r \in hit : TRUE)[4]>>

RECURSIVE UpperFrom(_, _)
UpperFrom(s, i) ==
    IF i > Len(s) THEN <<>> ELSE UpperChar(s[i]) \o UpperFrom(s, i + 1)

\* str.upper()
Upper(s) == UpperFrom(s, 1)

\* Python's `q in s` for strings
Contains(q, s) == \E i \in 0..(Len(s) - Len(q)) : SubSeq(s, i + 1, i + Len(q)) = q

\* Python's `a < b` for strings: lexicographic by code point
RECURSIVE LexLess(_, _)
LexLess(a, b) ==
    IF b = <<>> THEN FALSE
    ELSE IF a = <<>> THEN TRUE
    ELSE IF Head(a) # Head(b) THEN Head(a) < Head(b)
    ELSE LexLess(Tail(a), Tail(b))

\* ------------------------------------------------------------------- cells
NA == [na |-> TRUE, s |-> <<>>]
Txt(t) == [na |-> FALSE, s |-> t]

\* str(value): a missing value (NaN) prints as "nan"
StrOf(cell) == IF cell.na THEN NAN_TEXT ELSE cell.s

\* -------------------------------------------------------------- DataFrames
\* pd.DataFrame()
EmptyFrame == [columns |-> <<>>, rows |-> <<>>]

\* df.empty: any axis of length 0
IsEmpty(df) == Len(df.columns) = 0 \/ Len(df.rows) = 0

\* `name in df.columns`
HasColumn(df, name) == \E i \in 1..Len(df.columns) : df.columns[i] = name

\* The positions df[name] selects: every column with that label.
Positions(df, name) == { i \in 1..Len(df.columns) : df.columns[i] = name }

\* df[name] is a Series: the label selects exactly one column.  With a
\* repeated label it is a DataFrame, which has no .str accessor.
IsSeries(df, name) == Cardinality(Positions(df, name)) = 1

\* The position of the one column df[name] selects when it is a Series.
ColIndex(df, name) ==
    CHOOSE i \in Positions(df, name) : IsSeries(df, name)

\* df[name] as a sequence of cells, when it is a Series
Column(df, name) == [r \in 1..Len(df.rows) |-> df.rows[r][ColIndex(df, name)]]

\* df.rename(columns={old: new}); a missing label is ignored (errors='ignore')
Rename(df, old, new) ==
    [df EXCEPT !.columns =
        [i \in 1..Len(df.columns) |->
            IF df.columns[i] = old THEN new ELSE df.columns[i]]]

RECURSIVE KeepIdx(_, _)
KeepIdx(names, drop) ==
    IF names = <<>> THEN <<>>
    ELSE LET rest == KeepIdx(SubSeq(names, 1, Len(names) - 1), drop)
         IN  IF names[Len(names)] = drop THEN rest ELSE Append(rest, Len(names))

\* df.drop(columns=[name])
DropColumn(df, name) ==
    LET keep == KeepIdx(df.columns, name)
    IN  [columns |-> [i \in 1..Len(keep) |-> df.columns[keep[i]]],
         rows    |-> [r \in 1..Len(df.rows) |->
                        [i \in 1..Len(keep) |-> df.rows[r][keep[i]]]]]

\* df[name] = value (a scalar): overwrite the column, or append it
AssignColumn(df, name, value) ==
    IF HasColumn(df, name)
    THEN [df EXCEPT !.rows =
            [r \in 1..Len(df.rows) |->
                [i \in 1..Len(df.columns) |->
                    IF df.columns[i] = name THEN value ELSE df.rows[r][i]]]]
    ELSE [columns |-> Append(df.columns, name),
          rows    |-> [r \in 1..Len(df.rows) |-> Append(df.rows[r], value)]]

AllNA(row) == \A i \in 1..Len(row) : row[i].na

\* df.dropna(how='all')
DropNaAll(df) ==
    LET Keep(row) == ~AllNA(row)
    IN  [df EXCEPT !.rows = SelectSeq(df.rows, Keep)]

\* ------------------------------------------------------------- load_gsheet
\* [col for col in original_cols if col.strip().lower() == COST_COLUMN]
CostColMatch(original_cols) ==
    LET IsCost(col) == Lower(Strip(col)) = COST_COLUMN
    IN  SelectSeq(original_cols, IsCost)

\* df.columns = df.columns.str.strip()
StripColumns(df) ==
    [df EXCEPT !.columns = [i \in 1..Len(df.columns) |-> Strip(df.columns[i])]]

\* lines 58-66: the rename uses the header as it was before stripping
StandardizeCost(df, original_cols) ==
    LET cost_col_match == CostColMatch(original_cols)
    IN  IF cost_col_match # <<>>
        THEN Rename(df, cost_col_match[1], COST_COLUMN_FOUND)
        ELSE AssignColumn(df, COST_COLUMN_FOUND, NA)

\* lines 68-70
EnsureCategory(df) ==
    IF ~HasColumn(df, CATEGORY_COLUMN)
    THEN AssignColumn(df, CATEGORY_COLUMN, Txt(UNCATEGORIZED))
    ELSE df

\* The body of the try block on a sheet that was fetched.
Normalize(raw) ==
    DropNaAll(EnsureCategory(StandardizeCost(StripColumns(raw), raw.columns)))

\* load_gsheet: the frame returned, and whether st.error was called.
load_gsheet(sh) ==
    IF sh.ok
    THEN [df |-> Normalize([columns |-> sh.columns, rows |-> sh.rows]), error |-> FALSE]
    ELSE [df |-> EmptyFrame, error |-> TRUE]

\* Faulty variant of create_overview_df: step 3 forgotten, the Category column stays.
create_overview_df_KeepsCategory(df, show_cost_in_table) ==
    IF IsEmpty(df) THEN EmptyFrame
    ELSE IF ~show_cost_in_table /\ HasColumn(df, COST_COLUMN_FOUND)
    THEN DropColumn(df, COST_COLUMN_FOUND)
    ELSE IF show_cost_in_table /\ HasColumn(df, COST_COLUMN_FOUND)
    THEN Rename(df, COST_COLUMN_FOUND, Upper(COST_COLUMN))
    ELSE df

\* ------------------------------------------------------ create_overview_df
\* The frame handed to st.dataframe: cost dropped or renamed to "COST",
\* Category dropped; an empty frame gives pd.DataFrame().
create_overview_df(df, show_cost_in_table) ==
    IF IsEmpty(df) THEN EmptyFrame
    ELSE LET df_display ==
                 IF ~show_cost_in_table /\ HasColumn(df, COST_COLUMN_FOUND)
                 THEN DropColumn(df, COST_COLUMN_FOUND)
                 ELSE IF show_cost_in_table /\ HasColumn(df, COST_COLUMN_FOUND)
                 THEN Rename(df, COST_COLUMN_FOUND, Upper(COST_COLUMN))
                 ELSE df
         IN  IF HasColumn(df_display, CATEGORY_COLUMN)
             THEN DropColumn(df_display, CATEGORY_COLUMN)
             ELSE df_display

\* ---------------------------------------------------------- category index
\* df[CATEGORY_COLUMN].dropna().astype(str)
CategoryTexts(df) ==
    LET col     == Column(df, CATEGORY_COLUMN)
        Present(cell) == ~cell.na
        kept    == SelectSeq(col, Present)
    IN  [i \in 1..Len(kept) |-> StrOf(kept[i])]

\* Series.unique(): the distinct values in order of first appearance
RECURSIVE Unique(_)
Unique(s) ==
    IF s = <<>> THEN <<>>
    ELSE LET init == Unique(SubSeq(s, 1, Len(s) - 1))
             last == s[Len(s)]
         IN  IF \E i \in 1..Len(init) : init[i] = last THEN init ELSE Append(init, last)

\* Insert text x into the ascending list s, after the entries not above it.
RECURSIVE Insert(_, _)
Insert(s, x) ==
    IF s = <<>> THEN <<x>>
    ELSE IF LexLess(x, Head(s)) THEN <<x>> \o s
    ELSE <<Head(s)>> \o Insert(Tail(s), x)

\* list.sort() on a list of str
RECURSIVE Sort(_)
Sort(s) == IF s = <<>> THEN <<>> ELSE Insert(Sort(SubSeq(s, 1, Len(s) - 1)), s[Len(s)])

\* lines 144-149: the choices of the sidebar selectbox, when
\* df[CATEGORY_COLUMN] is a Series in both frames
AllCategories(stock, arrival) ==
    LET both     == CategoryTexts(stock) \o CategoryTexts(arrival)
        stripped == [i \in 1..Len(both) |-> Strip(both[i])]
    IN  <<ALL_CATEGORIES>> \o Sort(Unique(stripped))

\* --------------------------------------------------------- category filter
\* lines 157-163: df[df[CATEGORY_COLUMN].astype(str).str.strip() == selected.strip()],
\* when df[CATEGORY_COLUMN] is a Series
FilterByCategory(df, selected) ==
    IF selected # ALL_CATEGORIES
    THEN LET ci == ColIndex(df, CATEGORY_COLUMN)
             Match(row) == Strip(StrOf(row[ci])) = Strip(selected)
         IN  [df EXCEPT !.rows = SelectSeq(df.rows, Match)]
    ELSE df

\* --------------------------------------------------------------- search_df
\* str(row.get(name, "")).lower(): "" only when the column is absent.
\* Defined for a label that no two columns share: the worksheets considered
\* have at most one itembarcode and one description header (with two,
\* row.get gives a Series and str its printed form, which is not modelled).
FieldText(df, row, name) ==
    IF HasColumn(df, name) THEN Lower(StrOf(row[ColIndex(df, name)])) ELSE <<>>

search_df(df, q) ==
    IF IsEmpty(df) THEN EmptyFrame
    ELSE LET Hit(row) == \/ Contains(q, FieldText(df, row, ITEMBARCODE))
                         \/ Contains(q, FieldText(df, row, DESCRIPTION))
         IN  [df EXCEPT !.rows = SelectSeq(df.rows, Hit)]

\* ------------------------------------------------------------------ inputs
\* The worksheets the run can meet.  A worksheet is a failed fetch, or a
\* header row and up to MaxRows records under it.  Headers are drawn in
\* sheet order from HeaderPool, at most MaxCols of them; the two Category
\* headers of the pool are equal once stripped.
HeaderPool ==
    << ITEMBARCODE,
       DESCRIPTION,
       <<160, 67, 97, 116, 101, 103, 111, 114, 121, 32>>,  \* "\xa0Category " (no-break space)
       CATEGORY_COLUMN,
       COST_COLUMN,
       <<32, 67, 111, 115, 116>>,                          \* " Cost"
       <<67, 79, 83, 84>> >>                               \* "COST"

\* The records a worksheet row is taken from; a row holds the fields its
\* sheet has a header for.
\* 1: a blank row.
\* 2: barcode "Ab1", category " Ab ", cost "5".
\* 3: only a cost, "5".
\* 4: barcode "ab", description "nan", category "nan".
\* 5: barcode "b", description "Ab", category "ab", cost "9".
RecordPool ==
    << [itembarcode |-> NA, description |-> NA, category |-> NA, cost |-> NA],
       [itembarcode |-> Txt(<<65, 98, 49>>), description |-> NA,
        category |-> Txt(<<32, 65, 98, 32>>), cost |-> Txt(<<53>>)],
       [itembarcode |-> NA, description |-> NA, category |-> NA,
        cost |-> Txt(<<53>>)],
       [itembarcode |-> Txt(<<97, 98>>), description |-> Txt(NAN_TEXT),
        category |-> Txt(NAN_TEXT), cost |-> NA],
       [itembarcode |-> Txt(<<98>>), description |-> Txt(<<65, 98>>),
        category |-> Txt(<<97, 98>>), cost |-> Txt(<<57>>)] >>

\* The cell of record rec under header h.
FieldOf(rec, h) ==
    LET k == Lower(Strip(h))
    IN  IF k = ITEMBARCODE THEN rec.itembarcode
        ELSE IF k = DESCRIPTION THEN rec.description
        ELSE IF k = Lower(CATEGORY_COLUMN) THEN rec.category
        ELSE rec.cost

RECURSIVE Ascending(_)
Ascending(S) ==
    IF S = {} THEN <<>>
    ELSE LET m == CHOOSE x \in S : \A y \in S : x <= y
         IN  <<m>> \o Ascending(S \ {m})

HeaderLists ==
    { [i \in 1..Len(Ascending(S)) |-> HeaderPool[Ascending(S)[i]]] :
        S \in { T \in SUBSET (1..Len(HeaderPool)) : Cardinality(T) \in 1..MaxCols } }

RowChoices == UNION { [1..n -> 1..Len(RecordPool)] : n \in 0..MaxRows }

Worksheet(headers, picks) ==
    [ok      |-> TRUE,
     columns |-> headers,
     rows    |-> [r \in 1..Len(picks) |->
                    [i \in 1..Len(headers) |-> FieldOf(RecordPool[picks[r]], headers[i])]]]

\* conn.read raised (or any other exception inside the try block)
FetchFailure == [ok |-> FALSE, columns |-> <<>>, rows |-> <<>>]

Worksheets ==
    {FetchFailure} \cup { Worksheet(h, p) : h \in HeaderLists, p \in RowChoices }

\* The worksheets the other tab is drawn from while one tab ranges over
\* all of Worksheets: a failed fetch, a header-only sheet, and a sheet with
\* two categorised rows.
ReferenceSheets ==
    { FetchFailure,
      Worksheet(<<CATEGORY_COLUMN, COST_COLUMN>>, <<>>),
      Worksheet(<<ITEMBARCODE, CATEGORY_COLUMN>>, <<4, 2>>) }

\* What the user may type in the search box.
\* "", "  ", "\u2003Ab" (em space), "nan", "b"
RawQueries ==
    { <<>>, <<32, 32>>, <<8195, 65, 98>>, NAN_TEXT, <<98>> }

\* ------------------------------------------------------------------- state
VARIABLES
    sheet,                \* the two worksheets of the remote spreadsheet
    pc,                   \* where the script run is
    stock_df,             \* load_gsheet("Warehouse Stock", "stock")
    arrival_df,           \* load_gsheet("New Arrival", "new")
    errors,               \* data labels st.error was called for
    all_categories,       \* the selectbox choices (<<>> when not computed)
    sidebar_warning,      \* st.sidebar.warning was called
    selected_category,
    filtered_stock_df,
    filtered_arrival_df,
    query,                \* the search box, stripped and lowercased
    results_stock,        \* search_df(stock_df, query)
    results_arrival,      \* search_df(arrival_df, query)
    page,                 \* what each place of the page shows
    overview_call         \* a direct call of create_overview_df

vars == << sheet, pc, stock_df, arrival_df, errors, all_categories,
           sidebar_warning, selected_category, filtered_stock_df,
           filtered_arrival_df, query, results_stock, results_arrival, page,
           overview_call >>

Nothing == [kind |-> "none", df |-> EmptyFrame]
Shown(kind, df) == [kind |-> kind, df |-> df]

BlankPage ==
    [tab1 |-> Nothing, tab2 |-> Nothing,
     found_stock |-> Nothing, found_arrival |-> Nothing, no_match |-> Nothing]

NoCall == [df |-> EmptyFrame, show_cost_in_table |-> FALSE, ret |-> EmptyFrame]

SheetPairs ==
    (Worksheets \X ReferenceSheets) \cup (ReferenceSheets \X Worksheets)

Init ==
    /\ \E pair \in SheetPairs : sheet = [stock |-> pair[1], new |-> pair[2]]
    /\ pc = "load_stock"
    /\ stock_df = EmptyFrame
    /\ arrival_df = EmptyFrame
    /\ errors = {}
    /\ all_categories = <<>>
    /\ sidebar_warning = FALSE
    /\ selected_category = <<>>
    /\ filtered_stock_df = EmptyFrame
    /\ filtered_arrival_df = EmptyFrame
    /\ query = <<>>
    /\ results_stock = EmptyFrame
    /\ results_arrival = EmptyFrame
    /\ page = BlankPage
    /\ overview_call = NoCall

\* lines 85-88
LoadStock ==
    /\ pc = "load_stock"
    /\ LET r == load_gsheet(sheet.stock)
       IN  /\ stock_df' = r.df
           /\ errors' = IF r.error THEN errors \cup {"Warehouse Stock"} ELSE errors
    /\ pc' = "load_arrival"
    /\ UNCHANGED << sheet, arrival_df, all_categories, sidebar_warning,
                    selected_category, filtered_stock_df, filtered_arrival_df,
                    query, results_stock, results_arrival, page, overview_call >>

\* lines 89-92
LoadArrival ==
    /\ pc = "load_arrival"
    /\ LET r == load_gsheet(sheet.new)
       IN  /\ arrival_df' = r.df
           /\ errors' = IF r.error THEN errors \cup {"New Arrival"} ELSE errors
    /\ pc' = "sidebar"
    /\ UNCHANGED << sheet, stock_df, all_categories, sidebar_warning,
                    selected_category, filtered_stock_df, filtered_arrival_df,
                    query, results_stock, results_arrival, page, overview_call >>

\* lines 143-163: both frames have the Category column; the user picks one
\* of the selectbox choices (the first one unless they change it).
SidebarFilter ==
    /\ pc = "sidebar"
    /\ HasColumn(stock_df, CATEGORY_COLUMN)
    /\ HasColumn(arrival_df, CATEGORY_COLUMN)
    /\ IsSeries(stock_df, CATEGORY_COLUMN)
    /\ IsSeries(arrival_df, CATEGORY_COLUMN)
    /\ LET choices == AllCategories(stock_df, arrival_df)
       IN  /\ all_categories' = choices
           /\ \E i \in 1..Len(choices) :
                /\ selected_category' = choices[i]
                /\ filtered_stock_df' = FilterByCategory(stock_df, choices[i])
                /\ filtered_arrival_df' = FilterByCategory(arrival_df, choices[i])
    /\ pc' = "search_box"
    /\ UNCHANGED << sheet, stock_df, arrival_df, errors, sidebar_warning, query,
                    results_stock, results_arrival, page, overview_call >>

\* lines 143-147 when a frame has two Category columns: df[CATEGORY_COLUMN]
\* is a DataFrame, building all_categories raises (no .str accessor on a
\* DataFrame), nothing catches it and the run ends there.
SidebarCrash ==
    /\ pc = "sidebar"
    /\ HasColumn(stock_df, CATEGORY_COLUMN)
    /\ HasColumn(arrival_df, CATEGORY_COLUMN)
    /\ ~(IsSeries(stock_df, CATEGORY_COLUMN) /\ IsSeries(arrival_df, CATEGORY_COLUMN))
    /\ pc' = "crashed"
    /\ UNCHANGED << sheet, stock_df, arrival_df, errors, all_categories,
                    sidebar_warning, selected_category, filtered_stock_df,
                    filtered_arrival_df, query, results_stock, results_arrival,
                    page, overview_call >>

\* Faulty variant of SidebarUnfiltered: the filtered views are left unset (empty)
\* when the Category column is missing.
SidebarUnfiltered_NoViews ==
    /\ pc = "sidebar"
    /\ ~(HasColumn(stock_df, CATEGORY_COLUMN) /\ HasColumn(arrival_df, CATEGORY_COLUMN))
    /\ sidebar_warning' = TRUE
    /\ selected_category' = ALL_CATEGORIES
    /\ filtered_stock_df' = EmptyFrame
    /\ filtered_arrival_df' = EmptyFrame
    /\ pc' = "search_box"
    /\ UNCHANGED << sheet, stock_df, arrival_df, errors, all_categories, query,
                    results_stock, results_arrival, page, overview_call >>

\* lines 165-169
SidebarUnfiltered ==
    /\ pc = "sidebar"
    /\ ~(HasColumn(stock_df, CATEGORY_COLUMN) /\ HasColumn(arrival_df, CATEGORY_COLUMN))
    /\ sidebar_warning' = TRUE
    /\ selected_category' = ALL_CATEGORIES
    /\ filtered_stock_df' = stock_df
    /\ filtered_arrival_df' = arrival_df
    /\ pc' = "search_box"
    /\ UNCHANGED << sheet, stock_df, arrival_df, errors, all_categories, query,
                    results_stock, results_arrival, page, overview_call >>

\* lines 194-198
SearchBox ==
    /\ pc = "search_box"
    /\ \E raw \in RawQueries : query' = Lower(Strip(raw))
    /\ pc' = "render"
    /\ UNCHANGED << sheet, stock_df, arrival_df, errors, all_categories,
                    sidebar_warning, selected_category, filtered_stock_df,
                    filtered_arrival_df, results_stock, results_arrival, page,
                    overview_call >>

\* One branch of lines 224-233: the results of one dataset, cost revealed.
Found(results) ==
    IF ~IsEmpty(results)
    THEN Shown("dataframe", create_overview_df(results, TRUE))
    ELSE Nothing

\* lines 203-235
SearchView ==
    /\ pc = "render"
    /\ query # <<>>
    /\ LET rs == search_df(stock_df, query)
           ra == search_df(arrival_df, query)
       IN  /\ results_stock' = rs
           /\ results_arrival' = ra
           /\ page' = [page EXCEPT
                         !.found_stock = Found(rs),
                         !.found_arrival = Found(ra),
                         !.no_match = IF IsEmpty(rs) /\ IsEmpty(ra)
                                      THEN Shown("warning", EmptyFrame)
                                      ELSE Nothing]
    /\ pc' = "done"
    /\ UNCHANGED << sheet, stock_df, arrival_df, errors, all_categories,
                    sidebar_warning, selected_category, filtered_stock_df,
                    filtered_arrival_df, query, overview_call >>

\* Faulty variant of Tab: the notice and the warning are told apart by the filtered
\* view, which is empty in both cases, so an empty load shows the notice.
Tab_NoticeForEmptyLoad(filtered, loaded) ==
    IF ~IsEmpty(filtered)
    THEN Shown("dataframe", create_overview_df(filtered, FALSE))
    ELSE IF IsEmpty(filtered)
    THEN Shown("info", EmptyFrame)
    ELSE Shown("warning", EmptyFrame)

\* lines 250-259 and 265-274: one tab, cost hidden.
Tab(filtered, loaded) ==
    IF ~IsEmpty(filtered)
    THEN Shown("dataframe", create_overview_df(filtered, FALSE))
    ELSE IF ~IsEmpty(loaded)
    THEN Shown("info", EmptyFrame)
    ELSE Shown("warning", EmptyFrame)

\* lines 240-274
TabbedView ==
    /\ pc = "render"
    /\ query = <<>>
    /\ page' = [page EXCEPT !.tab1 = Tab(filtered_stock_df, stock_df),
                            !.tab2 = Tab(filtered_arrival_df, arrival_df)]
    /\ pc' = "done"
    /\ UNCHANGED << sheet, stock_df, arrival_df, errors, all_categories,
                    sidebar_warning, selected_category, filtered_stock_df,
                    filtered_arrival_df, query, results_stock, results_arrival,
                    overview_call >>

Next ==
    \/ LoadStock
    \/ LoadArrival
    \/ SidebarFilter
    \/ SidebarCrash
    \/ SidebarUnfiltered
    \/ SearchBox
    \/ SearchView
    \/ TabbedView

Spec == Init /\ [][Next]_vars

\* ------------------------------------------- direct calls of the projector
\* create_overview_df applied to any frame: raw worksheet frames (no
\* internal_cost, Category present or not), loaded frames, frames with
\* columns and no rows, and pd.DataFrame().
OverviewInputs ==
    {EmptyFrame}
        \cup { [columns |-> w.columns, rows |-> w.rows] : w \in Worksheets }
        \cup { load_gsheet(w).df : w \in Worksheets }

InitOverview ==
    /\ sheet = [stock |-> FetchFailure, new |-> FetchFailure]
    /\ pc = "call"
    /\ stock_df = EmptyFrame
    /\ arrival_df = EmptyFrame
    /\ errors = {}
    /\ all_categories = <<>>
    /\ sidebar_warning = FALSE
    /\ selected_category = <<>>
    /\ filtered_stock_df = EmptyFrame
    /\ filtered_arrival_df = EmptyFrame
    /\ query = <<>>
    /\ results_stock = EmptyFrame
    /\ results_arrival = EmptyFrame
    /\ page = BlankPage
    /\ \E df \in OverviewInputs, show \in BOOLEAN :
          overview_call = [df |-> df, show_cost_in_table |-> show, ret |-> EmptyFrame]

CallOverview ==
    /\ pc = "call"
    /\ overview_call' =
          [overview_call EXCEPT
              !.ret = create_overview_df(overview_call.df,
                                         overview_call.show_cost_in_table)]
    /\ pc' = "returned"
    /\ UNCHANGED << sheet, stock_df, arrival_df, errors, all_categories,
                    sidebar_warning, selected_category, filtered_stock_df,
                    filtered_arrival_df, query, results_stock, results_arrival,
                    page >>

NextOverview == CallOverview

SpecOverview == InitOverview /\ [][NextOverview]_vars

\* ------------------------------------------------------------------ claims
StockLoaded ==
    pc \in {"load_arrival", "sidebar", "search_box", "render", "done", "crashed"}
ArrivalLoaded == pc \in {"sidebar", "search_box", "render", "done", "crashed"}
SidebarLeft == pc \in {"search_box", "render", "done", "crashed"}
SidebarDone == pc \in {"search_box", "render", "done"}

ColumnNames(df) == { df.columns[i] : i \in 1..Len(df.columns) }
IsCostHeader(h) == Lower(Strip(h)) = COST_COLUMN

\* C1: every worksheet whose fetch succeeds loads into a frame that has both
\* the internal_cost column and the Category column, whatever its headers.
C1_LoadedHasCostAndCategory ==
    /\ (StockLoaded /\ sheet.stock.ok) =>
          {COST_COLUMN_FOUND, CATEGORY_COLUMN} \subseteq ColumnNames(stock_df)
    /\ (ArrivalLoaded /\ sheet.new.ok) =>
          {COST_COLUMN_FOUND, CATEGORY_COLUMN} \subseteq ColumnNames(arrival_df)

\* The names a cost column of worksheet sh can carry in a frame.
CostNames(sh) ==
    {COST_COLUMN_FOUND} \cup
        { Strip(sh.columns[i]) : i \in { j \in 1..Len(sh.columns) : IsCostHeader(sh.columns[j]) } }

\* C2: in the tabbed view (empty query) no frame handed to st.dataframe has
\* a column that came from a cost header of its worksheet, under any name.
C2_CostHiddenInTabs ==
    (pc = "done" /\ query = <<>>) =>
        /\ (sheet.stock.ok /\ page.tab1.kind = "dataframe") =>
              ColumnNames(page.tab1.df) \cap CostNames(sheet.stock) = {}
        /\ (sheet.new.ok /\ page.tab2.kind = "dataframe") =>
              ColumnNames(page.tab2.df) \cap CostNames(sheet.new) = {}

\* The lowercased text of a row's field, a missing value or an absent
\* column counting as the empty string.
TextOrEmpty(df, row, name) ==
    LET at == { i \in 1..Len(df.columns) : df.columns[i] = name /\ ~row[i].na }
    IN  IF at = {} THEN <<>> ELSE Lower(row[CHOOSE i \in at : TRUE].s)

SubstringRows(df, q) ==
    LET Hit(row) == \/ Contains(q, TextOrEmpty(df, row, ITEMBARCODE))
                    \/ Contains(q, TextOrEmpty(df, row, DESCRIPTION))
    IN  SelectSeq(df.rows, Hit)

\* C3: search_df returns exactly the rows, in order, whose barcode or
\* description contains the query, a missing value counting as "".
C3_SearchIsSubstringMatch ==
    (pc = "done" /\ query # <<>>) =>
        /\ results_stock.rows = SubstringRows(stock_df, query)
        /\ results_arrival.rows = SubstringRows(arrival_df, query)

CategoryCell(df, row) ==
    row[CHOOSE i \in 1..Len(df.columns) : df.columns[i] = CATEGORY_COLUMN]

RowsOfCategory(df, selected) ==
    LET Same(row) == /\ ~CategoryCell(df, row).na
                     /\ Strip(CategoryCell(df, row).s) = Strip(selected)
    IN  SelectSeq(df.rows, Same)

FilterAsSpecified(df, selected) ==
    IF selected = ALL_CATEGORIES THEN df
    ELSE [columns |-> df.columns, rows |-> RowsOfCategory(df, selected)]

\* C4: with the sentinel the filtered view is the frame itself; with any
\* other selection it holds exactly the rows, in order, whose category
\* value stripped equals the selection stripped.
C4_CategoryFilterExact ==
    (SidebarDone /\ all_categories # <<>>) =>
        /\ filtered_stock_df = FilterAsSpecified(stock_df, selected_category)
        /\ filtered_arrival_df = FilterAsSpecified(arrival_df, selected_category)

PresentCategories(df) ==
    { Strip(CategoryCell(df, df.rows[r]).s) :
        r \in { k \in 1..Len(df.rows) : ~CategoryCell(df, df.rows[k]).na } }

\* C5: for any two loaded frames that both have the Category column the
\* category choices are computed, and they are the sentinel, then the
\* distinct stripped texts of the non-missing category values of both
\* frames, each once, in ascending lexicographic order; a missing value
\* adds no entry.
C5_CategoryIndexSortedDistinct ==
    (SidebarLeft /\ HasColumn(stock_df, CATEGORY_COLUMN)
                 /\ HasColumn(arrival_df, CATEGORY_COLUMN)) =>
        /\ pc # "crashed"
        /\ all_categories # <<>>
        /\ all_categories[1] = ALL_CATEGORIES
        /\ \A i \in 2..(Len(all_categories) - 1) :
              LexLess(all_categories[i], all_categories[i + 1])
        /\ { all_categories[i] : i \in 2..Len(all_categories) }
              = PresentCategories(stock_df) \cup PresentCategories(arrival_df)

\* The columns create_overview_df is to keep, by position in the input.
KeptPositions(df, show) ==
    Ascending({ j \in 1..Len(df.columns) :
                  /\ df.columns[j] # CATEGORY_COLUMN
                  /\ (show \/ df.columns[j] # COST_COLUMN_FOUND) })

\* "COST" for the standardized cost column, the name itself otherwise.
DisplayLabel(name) == IF name = COST_COLUMN_FOUND THEN <<67, 79, 83, 84>> ELSE name

ProjectionOf(df, show) ==
    LET kept == KeptPositions(df, show)
    IN  [columns |-> [i \in 1..Len(kept) |-> DisplayLabel(df.columns[kept[i]])],
         rows    |-> [r \in 1..Len(df.rows) |->
                        [i \in 1..Len(kept) |-> df.rows[r][kept[i]]]]]

\* C6 as written: for every input frame, one with columns and no rows
\* included, the output has the input's rows and columns except that
\* Category is gone and internal_cost is gone or relabelled "COST".
C6_ProjectionOfEveryFrame ==
    pc = "returned" =>
        overview_call.ret =
            ProjectionOf(overview_call.df, overview_call.show_cost_in_table)

\* C6 amended: the above for every input frame with at least one row and
\* one column; for an empty input frame (no rows or no columns) the output
\* is the frame with no rows and no columns.
C6_ProjectionOfNonEmptyFrame ==
    pc = "returned" =>
        overview_call.ret =
            IF Len(overview_call.df.rows) = 0 \/ Len(overview_call.df.columns) = 0
            THEN [columns |-> <<>>, rows |-> <<>>]
            ELSE ProjectionOf(overview_call.df, overview_call.show_cost_in_table)

\* C6 witness: a frame with rows, a Category column, the standardized cost
\* column and another column was projected with the cost revealed.
C6_Witness ==
    /\ pc = "returned"
    /\ overview_call.show_cost_in_table
    /\ Len(overview_call.df.rows) = 2
    /\ {CATEGORY_COLUMN, COST_COLUMN_FOUND, ITEMBARCODE}
            \subseteq ColumnNames(overview_call.df)
    /\ overview_call.ret.columns = <<ITEMBARCODE, <<67, 79, 83, 84>>>>

\* C7: a worksheet row that is missing in every worksheet column is not in
\* the loaded frame (the worksheet columns are the frame's first columns).
HasSourceValue(sh, row) == \E i \in 1..Len(sh.columns) : ~row[i].na

C7_BlankRowsDiscarded ==
    /\ (StockLoaded /\ sheet.stock.ok) =>
          \A r \in 1..Len(stock_df.rows) : HasSourceValue(sheet.stock, stock_df.rows[r])
    /\ (ArrivalLoaded /\ sheet.new.ok) =>
          \A r \in 1..Len(arrival_df.rows) : HasSourceValue(sheet.new, arrival_df.rows[r])

\* What a tab must show, told from the row counts alone.
TabOutcome(filtered, loaded) ==
    IF Len(filtered.rows) > 0 THEN "dataframe"
    ELSE IF Len(loaded.rows) > 0 THEN "info"
    ELSE "warning"

\* C8: a failed load is reported and gives a frame with no rows; each tab
\* shows the projected rows when the filtered view has rows, the "no items"
\* notice exactly when the loaded frame has rows and the filtered view has
\* none, the "could not display" warning exactly when the loaded frame is
\* empty; so a failed load is never shown as "no items", and the other
\* worksheet is still displayed in full.
C8_FailedLoadAndTabOutcomes ==
    /\ (StockLoaded /\ ~sheet.stock.ok) =>
          ("Warehouse Stock" \in errors /\ stock_df.rows = <<>>)
    /\ (ArrivalLoaded /\ ~sheet.new.ok) =>
          ("New Arrival" \in errors /\ arrival_df.rows = <<>>)
    /\ (~sheet.stock.ok \/ ~sheet.new.ok) => pc # "crashed"
    /\ (pc = "done" /\ query = <<>>) =>
          /\ page.tab1.kind = TabOutcome(filtered_stock_df, stock_df)
          /\ page.tab2.kind = TabOutcome(filtered_arrival_df, arrival_df)
          /\ Len(page.tab1.df.rows) = Len(filtered_stock_df.rows)
          /\ Len(page.tab2.df.rows) = Len(filtered_arrival_df.rows)
          /\ ~sheet.stock.ok => page.tab1.kind = "warning"
          /\ ~sheet.new.ok => page.tab2.kind = "warning"
          /\ (~sheet.stock.ok /\ Len(arrival_df.rows) > 0) =>
                /\ page.tab2.kind = "dataframe"
                /\ Len(page.tab2.df.rows) = Len(arrival_df.rows)
          /\ (~sheet.new.ok /\ Len(stock_df.rows) > 0) =>
                /\ page.tab1.kind = "dataframe"
                /\ Len(page.tab1.df.rows) = Len(stock_df.rows)

\* C8 witness: the stock fetch failed, its tab warns, and the arrival tab
\* shows the arrival rows.
C8_Witness ==
    /\ pc = "done"
    /\ query = <<>>
    /\ ~sheet.stock.ok
    /\ "Warehouse Stock" \in errors
    /\ page.tab1.kind = "warning"
    /\ page.tab2.kind = "dataframe"
    /\ Len(page.tab2.df.rows) = 2

\* C9: when either loaded frame lacks the Category column no choices are
\* computed, the sidebar warns, the selection is "All Categories" and each
\* filtered view is the whole loaded frame; the run goes on to render.
C9_MissingCategoryShowsUnfiltered ==
    (SidebarLeft /\ ~({CATEGORY_COLUMN} \subseteq ColumnNames(stock_df)
                       /\ {CATEGORY_COLUMN} \subseteq ColumnNames(arrival_df))) =>
        /\ pc # "crashed"
        /\ all_categories = <<>>
        /\ sidebar_warning
        /\ selected_category = ALL_CATEGORIES
        /\ filtered_stock_df = stock_df
        /\ filtered_arrival_df = arrival_df
        /\ pc = "done" =>
              \/ query # <<>>
              \/ /\ page.tab1.kind \in {"dataframe", "warning"}
                 /\ page.tab2.kind \in {"dataframe", "warning"}

\* C9 witness: the arrival fetch failed, the stock frame has its Category
\* column and rows of two categories, and the run rendered all of them.
C9_Witness ==
    /\ pc = "done"
    /\ query = <<>>
    /\ ~sheet.new.ok
    /\ HasColumn(stock_df, CATEGORY_COLUMN)
    /\ Cardinality(PresentCategories(stock_df)) = 2
    /\ sidebar_warning
    /\ filtered_stock_df = stock_df
    /\ page.tab1.kind = "dataframe"

\* C10: a choice other than the sentinel selects at least one row, and only
\* rows whose category value is present and strips to the choice.
C10_IndexAndFilterAgreeOnMissing ==
    (SidebarDone /\ all_categories # <<>> /\ selected_category # ALL_CATEGORIES) =>
        /\ Len(filtered_stock_df.rows) + Len(filtered_arrival_df.rows) >= 1
        /\ \A r \in 1..Len(filtered_stock_df.rows) :
              LET cell == CategoryCell(filtered_stock_df, filtered_stock_df.rows[r])
              IN  ~cell.na /\ Strip(cell.s) = selected_category
        /\ \A r \in 1..Len(filtered_arrival_df.rows) :
              LET cell == CategoryCell(filtered_arrival_df, filtered_arrival_df.rows[r])
              IN  ~cell.na /\ Strip(cell.s) = selected_category

=============================================================================
